---- MODULE Spec2Model ----
(***************************************************************************)
(* Model of src/src/lib.rs: a fixed-capacity ring buffer (RingBuffer<A>)   *)
(* with overwrite-oldest eviction, and its read-only view                  *)
(* (RingBufferView<A>).                                                    *)
(*                                                                         *)
(* Rust vectors are 0-based, TLA+ sequences 1-based: the Rust expression   *)
(* self.buffer[i] is buffer[i + 1] here, and it panics (index out of       *)
(* bounds) unless i < Len(buffer).  Every operator that models a function  *)
(* which can panic returns a record with a panic flag.                     *)
(***************************************************************************)
EXTENDS Integers, Sequences, FiniteSets, TLC

\* ---------------------------------------------------------------- bounds
MaxCap == 3
MaxPushes == 6
MaxVal == 2
MaxVecSlack == 1
MaxAssign == 1

Values == 1..MaxVal
Sizes == 0..MaxCap
Indices == 0..(MaxCap + 1)

\* ------------------------------------------------------- Option<T> values
None == <<>>
Some(v) == <<v>>

\* The projections handed to peek_first / peek_last (fn(&A) -> B).
Conts == {"idint", "double"}
cont_apply(cont, x) == IF cont = "idint" THEN x ELSE 2 * x

\* ------------------------------------------------------------- the struct
\* RingBuffer { buffer, start, end, capacity }; buffer_capacity is the
\* allocation size of the Vec (Vec::capacity()), at least the requested one.
RingBuffer(b, bc, s, e, c) ==
    [buffer |-> b, buffer_capacity |-> bc, start |-> s, end |-> e, capacity |-> c]

\* Placeholder for a binding whose value is not owned (never built, or moved
\* into a view / out of a view).  No operation reads it: pc guards them.
Moved == RingBuffer(<<>>, 0, 0, 0, 0)

RingBufferView(ring_buffer) == [ring_buffer |-> ring_buffer]

\* Result of a call: did it panic, what it returned, and the receiver after it.
Ret(r, self) == [panic |-> FALSE, ret |-> r, self |-> self]
Panic(self) == [panic |-> TRUE, ret |-> None, self |-> self]

\* ------------------------------------------------------------ operations
\* new without its assert!(size > 0).
new_unchecked(size, vcap) ==
    Ret(None, RingBuffer(<<>>, vcap, 0, 0, size))

\* new that builds the Vec without reserving (Vec::new(), capacity 0).
new_unreserved(size, vcap) ==
    IF size > 0
    THEN Ret(None, RingBuffer(<<>>, 0, 0, 0, size))
    ELSE Panic(Moved)

\* Vec::with_capacity(size) allocates room for at least size elements:
\* vcap is the capacity the allocator actually gave.
new(size, vcap) ==
    IF size > 0
    THEN Ret(None, RingBuffer(<<>>, vcap, 0, 0, size))
    ELSE Panic(Moved)

freeze(ring_buffer) == RingBufferView(ring_buffer)

\* thaw that hands back the buffer with its start cursor rewound.
thaw_rewound(self) == [self.ring_buffer EXCEPT !.start = 0]

thaw(self) == self.ring_buffer

\* at with the live-window test off by one (i > end instead of i >= end).
at_inclusive_end(self, idx) ==
    LET rb == self.ring_buffer IN
    IF idx >= rb.capacity
    THEN Ret(None, self)
    ELSE LET i == (rb.start + idx) % rb.capacity IN
         IF i > rb.end
         THEN Ret(None, self)
         ELSE IF i < Len(rb.buffer)
              THEN Ret(Some(rb.buffer[i + 1]), self)
              ELSE Panic(self)

at(self, idx) ==
    LET rb == self.ring_buffer IN
    IF idx >= rb.capacity
    THEN Ret(None, self)
    ELSE LET i == (rb.start + idx) % rb.capacity IN
         IF i >= rb.end
         THEN Ret(None, self)
         ELSE IF i < Len(rb.buffer)
              THEN Ret(Some(rb.buffer[i + 1]), self)
              ELSE Panic(self)

\* len with a strict comparison (start < end instead of start <= end).
len_strict(self) ==
    IF self.start = 0 /\ self.end = 0
    THEN 0
    ELSE IF self.start < self.end
         THEN self.end - self.start
         ELSE Len(self.buffer) + self.end - self.start

len(self) ==
    IF self.start = 0 /\ self.end = 0
    THEN 0
    ELSE IF self.start <= self.end
         THEN self.end - self.start
         ELSE Len(self.buffer) + self.end - self.start

\* peek_first that removes what it returns (advances start), like a pop.
peek_first_popping(self, cont) ==
    IF self.start = 0 /\ self.end = 0
    THEN Ret(None, self)
    ELSE IF self.start < Len(self.buffer)
         THEN Ret(Some(cont_apply(cont, self.buffer[self.start + 1])),
                  [self EXCEPT !.start = @ + 1])
         ELSE Panic(self)

peek_first(self, cont) ==
    IF self.start = 0 /\ self.end = 0
    THEN Ret(None, self)
    ELSE IF self.start < Len(self.buffer)
         THEN Ret(Some(cont_apply(cont, self.buffer[self.start + 1])), self)
         ELSE Panic(self)

peek_last(self, cont) ==
    IF self.start = 0 /\ self.end = 0
    THEN Ret(None, self)
    ELSE IF self.end - 1 >= 0 /\ self.end - 1 < Len(self.buffer)
         THEN Ret(Some(cont_apply(cont, self.buffer[self.end])), self)
         ELSE Panic(self)

\* push whose wrapped branch resets end to 0 when the incremented end reaches
\* the capacity (instead of resetting start).
push_end_reset(self, val) ==
    IF self.start = 0
    THEN IF self.end >= self.capacity
         THEN IF 0 < Len(self.buffer)
              THEN Ret(Some(self.buffer[1]),
                       [self EXCEPT !.buffer[1] = val, !.start = 1, !.end = 1])
              ELSE Panic(self)
         ELSE IF Len(self.buffer) < self.buffer_capacity
              THEN Ret(None, [self EXCEPT !.buffer = Append(@, val),
                                          !.end = @ + 1])
              ELSE IF self.end < Len(self.buffer)
                   THEN Ret(None, [self EXCEPT !.buffer[self.end + 1] = val,
                                               !.end = @ + 1])
                   ELSE Panic(self)
    ELSE IF self.start = self.end
         THEN IF self.end < Len(self.buffer)
              THEN LET e == self.end + 1 IN
                   Ret(Some(self.buffer[self.end + 1]),
                       [self EXCEPT !.buffer[self.end + 1] = val,
                                    !.end = IF e < self.capacity THEN e ELSE 0,
                                    !.start = IF e < self.capacity THEN e ELSE @])
              ELSE Panic(self)
         ELSE IF self.end < Len(self.buffer)
              THEN Ret(None, [self EXCEPT !.buffer[self.end + 1] = val,
                                          !.end = @ + 1])
              ELSE Panic(self)

\* push whose wrapped branch forgets to advance start with end.
push_start_stuck(self, val) ==
    IF self.start = 0
    THEN IF self.end >= self.capacity
         THEN IF 0 < Len(self.buffer)
              THEN Ret(Some(self.buffer[1]),
                       [self EXCEPT !.buffer[1] = val, !.start = 1, !.end = 1])
              ELSE Panic(self)
         ELSE IF Len(self.buffer) < self.buffer_capacity
              THEN Ret(None, [self EXCEPT !.buffer = Append(@, val),
                                          !.end = @ + 1])
              ELSE IF self.end < Len(self.buffer)
                   THEN Ret(None, [self EXCEPT !.buffer[self.end + 1] = val,
                                               !.end = @ + 1])
                   ELSE Panic(self)
    ELSE IF self.start = self.end
         THEN IF self.end < Len(self.buffer)
              THEN LET e == self.end + 1 IN
                   Ret(Some(self.buffer[self.end + 1]),
                       [self EXCEPT !.buffer[self.end + 1] = val,
                                    !.end = e,
                                    !.start = IF e < self.capacity THEN @ ELSE 0])
              ELSE Panic(self)
         ELSE IF self.end < Len(self.buffer)
              THEN Ret(None, [self EXCEPT !.buffer[self.end + 1] = val,
                                          !.end = @ + 1])
              ELSE Panic(self)

\* push whose first wrap forgets self.start = 1.
push_start_unset(self, val) ==
    IF self.start = 0
    THEN IF self.end >= self.capacity
         THEN IF 0 < Len(self.buffer)
              THEN Ret(Some(self.buffer[1]),
                       [self EXCEPT !.buffer[1] = val, !.end = 1])
              ELSE Panic(self)
         ELSE IF Len(self.buffer) < self.buffer_capacity
              THEN Ret(None, [self EXCEPT !.buffer = Append(@, val),
                                          !.end = @ + 1])
              ELSE IF self.end < Len(self.buffer)
                   THEN Ret(None, [self EXCEPT !.buffer[self.end + 1] = val,
                                               !.end = @ + 1])
                   ELSE Panic(self)
    ELSE IF self.start = self.end
         THEN IF self.end < Len(self.buffer)
              THEN LET e == self.end + 1 IN
                   Ret(Some(self.buffer[self.end + 1]),
                       [self EXCEPT !.buffer[self.end + 1] = val,
                                    !.end = e,
                                    !.start = IF e < self.capacity THEN e ELSE 0])
              ELSE Panic(self)
         ELSE IF self.end < Len(self.buffer)
              THEN Ret(None, [self EXCEPT !.buffer[self.end + 1] = val,
                                          !.end = @ + 1])
              ELSE Panic(self)

\* push with the full test off by one (end > capacity instead of
\* end >= capacity): a full unwrapped buffer takes the filling branch again.
push_late_wrap(self, val) ==
    IF self.start = 0
    THEN IF self.end > self.capacity
         THEN IF 0 < Len(self.buffer)
              THEN Ret(Some(self.buffer[1]),
                       [self EXCEPT !.buffer[1] = val, !.start = 1, !.end = 1])
              ELSE Panic(self)
         ELSE IF Len(self.buffer) < self.buffer_capacity
              THEN Ret(None, [self EXCEPT !.buffer = Append(@, val),
                                          !.end = @ + 1])
              ELSE IF self.end < Len(self.buffer)
                   THEN Ret(None, [self EXCEPT !.buffer[self.end + 1] = val,
                                               !.end = @ + 1])
                   ELSE Panic(self)
    ELSE IF self.start = self.end
         THEN IF self.end < Len(self.buffer)
              THEN LET e == self.end + 1 IN
                   Ret(Some(self.buffer[self.end + 1]),
                       [self EXCEPT !.buffer[self.end + 1] = val,
                                    !.end = e,
                                    !.start = IF e < self.capacity THEN e ELSE 0])
              ELSE Panic(self)
         ELSE IF self.end < Len(self.buffer)
              THEN Ret(None, [self EXCEPT !.buffer[self.end + 1] = val,
                                          !.end = @ + 1])
              ELSE Panic(self)

push(self, val) ==
    IF self.start = 0
    THEN IF self.end >= self.capacity
         THEN IF 0 < Len(self.buffer)
              THEN Ret(Some(self.buffer[1]),
                       [self EXCEPT !.buffer[1] = val, !.start = 1, !.end = 1])
              ELSE Panic(self)
         ELSE IF Len(self.buffer) < self.buffer_capacity
              THEN Ret(None, [self EXCEPT !.buffer = Append(@, val),
                                          !.end = @ + 1])
              ELSE IF self.end < Len(self.buffer)
                   THEN Ret(None, [self EXCEPT !.buffer[self.end + 1] = val,
                                               !.end = @ + 1])
                   ELSE Panic(self)
    ELSE IF self.start = self.end
         THEN IF self.end < Len(self.buffer)
              THEN LET e == self.end + 1 IN
                   Ret(Some(self.buffer[self.end + 1]),
                       [self EXCEPT !.buffer[self.end + 1] = val,
                                    !.end = e,
                                    !.start = IF e < self.capacity THEN e ELSE 0])
              ELSE Panic(self)
         ELSE IF self.end < Len(self.buffer)
              THEN Ret(None, [self EXCEPT !.buffer[self.end + 1] = val,
                                          !.end = @ + 1])
              ELSE Panic(self)

\* ------------------------------------------------------------------ state
VARIABLES
    pc,             \* "start" | "live" (rb owned) | "frozen" (rbv owned) | "panicked"
    rb,             \* the caller's RingBuffer binding
    rbv,            \* the caller's RingBufferView binding
    last,           \* the last call: its name, argument, result, panic flag
    pushed,         \* history: the values of the pushes that returned, in order
    before_freeze,  \* history: the buffer as it was handed to the last freeze
    returned,       \* history: the values handed back by push (Some(v)), in order
    assigned        \* history: how many times the caller assigned rb.capacity

vars == <<pc, rb, rbv, last, pushed, before_freeze, returned, assigned>>

\* A call record: operation name, integer argument (0 when it has none),
\* projection name ("" when it has none), returned Option, panic flag.
Call(op, arg, cont, ret, panic) ==
    [op |-> op, arg |-> arg, cont |-> cont, ret |-> ret, panic |-> panic]

Init ==
    /\ pc = "start"
    /\ rb = Moved
    /\ rbv = RingBufferView(Moved)
    /\ last = Call("none", 0, "", None, FALSE)
    /\ pushed = <<>>
    /\ before_freeze = Moved
    /\ returned = <<>>
    /\ assigned = 0

New(size, vcap) ==
    /\ pc = "start"
    /\ LET r == new(size, vcap) IN
       /\ pc' = IF r.panic THEN "panicked" ELSE "live"
       /\ rb' = r.self
       /\ last' = Call("new", size, "", None, r.panic)
    /\ UNCHANGED <<rbv, pushed, before_freeze, returned, assigned>>

Push(val) ==
    /\ pc = "live"
    /\ Len(pushed) < MaxPushes
    /\ LET r == push(rb, val) IN
       /\ pc' = IF r.panic THEN "panicked" ELSE "live"
       /\ rb' = r.self
       /\ last' = Call("push", val, "", r.ret, r.panic)
       /\ pushed' = IF r.panic THEN pushed ELSE Append(pushed, val)
       /\ returned' = returned \o r.ret
    /\ UNCHANGED <<rbv, before_freeze, assigned>>

LenOp ==
    /\ pc = "live"
    /\ last' = Call("len", 0, "", Some(len(rb)), FALSE)
    /\ UNCHANGED <<pc, rb, rbv, pushed, before_freeze, returned, assigned>>

PeekFirst(cont) ==
    /\ pc = "live"
    /\ LET r == peek_first(rb, cont) IN
       /\ pc' = IF r.panic THEN "panicked" ELSE "live"
       /\ rb' = r.self
       /\ last' = Call("peek_first", 0, cont, r.ret, r.panic)
    /\ UNCHANGED <<rbv, pushed, before_freeze, returned, assigned>>

PeekLast(cont) ==
    /\ pc = "live"
    /\ LET r == peek_last(rb, cont) IN
       /\ pc' = IF r.panic THEN "panicked" ELSE "live"
       /\ rb' = r.self
       /\ last' = Call("peek_last", 0, cont, r.ret, r.panic)
    /\ UNCHANGED <<rbv, pushed, before_freeze, returned, assigned>>

Freeze ==
    /\ pc = "live"
    /\ rbv' = freeze(rb)
    /\ rb' = Moved
    /\ before_freeze' = rb
    /\ pc' = "frozen"
    /\ last' = Call("freeze", 0, "", None, FALSE)
    /\ UNCHANGED <<pushed, returned, assigned>>

At(idx) ==
    /\ pc = "frozen"
    /\ LET r == at(rbv, idx) IN
       /\ pc' = IF r.panic THEN "panicked" ELSE "frozen"
       /\ rbv' = r.self
       /\ last' = Call("at", idx, "", r.ret, r.panic)
    /\ UNCHANGED <<rb, pushed, before_freeze, returned, assigned>>

Thaw ==
    /\ pc = "frozen"
    /\ rb' = thaw(rbv)
    /\ rbv' = RingBufferView(Moved)
    /\ pc' = "live"
    /\ last' = Call("thaw", 0, "", None, FALSE)
    /\ UNCHANGED <<pushed, before_freeze, returned, assigned>>

Next ==
    \/ \E size \in Sizes : \E vcap \in size..(size + MaxVecSlack) : New(size, vcap)
    \/ \E val \in Values : Push(val)
    \/ LenOp
    \/ \E cont \in Conts : PeekFirst(cont)
    \/ \E cont \in Conts : PeekLast(cont)
    \/ Freeze
    \/ \E idx \in Indices : At(idx)
    \/ Thaw

\* The caller of the test module assigning the capacity field of a buffer it
\* holds (rb.capacity = 4), and reading it back (rb.capacity).
SetCapacity(c) ==
    /\ pc = "live"
    /\ assigned < MaxAssign
    /\ rb' = [rb EXCEPT !.capacity = c]
    /\ assigned' = assigned + 1
    /\ last' = Call("set_capacity", c, "", None, FALSE)
    /\ UNCHANGED <<pc, rbv, pushed, before_freeze, returned>>

ReadCapacity ==
    /\ pc = "live"
    /\ last' = Call("read_capacity", 0, "", Some(rb.capacity), FALSE)
    /\ UNCHANGED <<pc, rb, rbv, pushed, before_freeze, returned, assigned>>

NextExt ==
    \/ Next
    \/ \E c \in Indices : SetCapacity(c)
    \/ ReadCapacity

Spec == Init /\ [][Next]_vars

\* The same program with every push given a value not pushed before (the
\* number of the push), so that values identify pushes.
NextDistinct ==
    \/ \E size \in Sizes : \E vcap \in size..(size + MaxVecSlack) : New(size, vcap)
    \/ Push(Len(pushed) + 1)
    \/ LenOp
    \/ \E cont \in Conts : PeekFirst(cont)
    \/ \E cont \in Conts : PeekLast(cont)
    \/ Freeze
    \/ \E idx \in Indices : At(idx)
    \/ Thaw

SpecDistinct == Init /\ [][NextDistinct]_vars

\* The buffer used by code that can also assign its capacity field.
SpecExt == Init /\ [][NextExt]_vars

\* ------------------------------------------------- vocabulary of the claims
Min(a, b) == IF a <= b THEN a ELSE b
Max(a, b) == IF a >= b THEN a ELSE b

\* The buffer the caller currently holds, directly or inside the view.
Owned == pc \in {"live", "frozen"}
Cur == IF pc = "frozen" THEN rbv.ring_buffer ELSE rb

\* Number of pushes so far, and the number of elements that should be live.
NPushed == Len(pushed)
Live == Min(NPushed, Cur.capacity)
\* The value that should sit at logical index i (0 = oldest live).
Oldest(i) == pushed[NPushed - Live + i + 1]

\* (C1) The k-th push on a buffer of capacity C returns absent when k <= C and
\* otherwise returns the value of push number k - C (FIFO eviction); it never
\* fails to return.
C1_PushEvictsFifo ==
    last.op = "push" =>
        /\ ~last.panic
        /\ last.ret = IF NPushed <= rb.capacity
                      THEN None
                      ELSE Some(pushed[NPushed - rb.capacity])

\* (C2) After n pushes on a buffer of capacity C, len() returns min(n, C).
C2_LenIsLiveCount ==
    last.op = "len" => last.ret = Some(Min(NPushed, rb.capacity))

\* (C3) After n >= 1 pushes, peek_first(f) returns f of the oldest live value
\* (push number max(1, n - C + 1)) and peek_last(f) returns f of the value of
\* the most recent push.
C3_PeekOldestNewest ==
    /\ (last.op = "peek_first" /\ NPushed >= 1) =>
           /\ ~last.panic
           /\ last.ret = Some(cont_apply(last.cont,
                              pushed[Max(1, NPushed - rb.capacity + 1)]))
    /\ (last.op = "peek_last" /\ NPushed >= 1) =>
           /\ ~last.panic
           /\ last.ret = Some(cont_apply(last.cont, pushed[NPushed]))

\* (C4) On a view frozen after n pushes, at(i) for 0 <= i < min(n, C) returns
\* the i-th oldest live value, the value of push number n - min(n, C) + i + 1.
C4_AtReturnsIthOldest ==
    (last.op = "at" /\ last.arg < Live) =>
        /\ ~last.panic
        /\ last.ret = Some(Oldest(last.arg))

\* (C5) On a view of any reachable buffer, at(idx) is absent for every
\* idx >= capacity and for every idx with len() <= idx < capacity, len() being
\* what the buffer's own len() returns in that state.
C5_AtAbsentOutsideLen ==
    last.op = "at" =>
        /\ last.arg >= Cur.capacity => (~last.panic /\ last.ret = None)
        /\ (len(Cur) <= last.arg /\ last.arg < Cur.capacity) =>
               (~last.panic /\ last.ret = None)

\* (C6) Every operation other than construction is total: no call to push,
\* len, peek_first, peek_last or at panics, and push always stores its value.
C6_OperationsTotal ==
    /\ last.op # "new" => ~last.panic
    /\ last.op = "push" =>
           \E i \in 1..Len(rb.buffer) : rb.buffer[i] = last.arg

\* (C7) In every reachable state len() is at most the capacity and the
\* backing storage holds at most capacity elements.
C7_NeverExceedsCapacity ==
    (pc # "start" /\ ~(last.op = "new" /\ last.panic)) =>
        /\ len(Cur) <= Cur.capacity
        /\ Len(Cur.buffer) <= Cur.capacity

C7_Witness ==
    /\ last.op = "len"
    /\ NPushed > rb.capacity
    /\ Len(rb.buffer) = rb.capacity

\* (C8) A freshly constructed buffer has len() = 0, peek_first and peek_last
\* absent, and a view frozen from it has at(idx) absent for every idx.
Fresh == Owned /\ pushed = <<>>
C8_FreshIsEmpty ==
    Fresh =>
        /\ len(Cur) = 0
        /\ \A cont \in Conts :
               /\ peek_first(Cur, cont) = Ret(None, Cur)
               /\ peek_last(Cur, cont) = Ret(None, Cur)
        /\ \A idx \in Indices :
               at(freeze(Cur), idx) = Ret(None, freeze(Cur))
        /\ last.op \in {"peek_first", "peek_last", "at"} =>
               (~last.panic /\ last.ret = None)
        /\ last.op = "len" => last.ret = Some(0)

C8_Witness ==
    /\ Fresh
    /\ pc = "frozen"
    /\ last.op = "at"
    /\ last.arg = 0

\* (C9) new(0) fails fatally and produces no buffer, so no buffer with
\* capacity 0 is ever held; new(C) for C > 0 always succeeds.
C9_NewRejectsZero ==
    /\ Owned => Cur.capacity > 0
    /\ last.op = "new" =>
           /\ last.panic <=> last.arg = 0
           /\ last.panic => pc = "panicked"
           /\ ~last.panic => (pc = "live" /\ rb.capacity = last.arg)

C9_Witness ==
    /\ last.op = "new"
    /\ last.arg = 0
    /\ pc = "panicked"

\* (C10) thaw(freeze(buf)) is buf: same start, end, capacity and storage, so
\* every later observation and push behaves as without the round trip.
C10_FreezeThawRoundTrip ==
    /\ pc = "frozen" => rbv.ring_buffer = before_freeze
    /\ last.op = "thaw" =>
           /\ rb.start = before_freeze.start
           /\ rb.end = before_freeze.end
           /\ rb.capacity = before_freeze.capacity
           /\ rb.buffer = before_freeze.buffer
           /\ rb = before_freeze

C10_Witness ==
    /\ last.op = "thaw"
    /\ NPushed > rb.capacity
    /\ rb.start > 0

\* (C11) len, peek_first, peek_last, freeze, at and thaw leave start, end,
\* capacity and the storage unchanged: only push changes start, end or the
\* storage, and no operation, push included, changes capacity.
C11_OnlyPushMutates ==
    [][/\ (pc # "start" /\ last'.op # "push") =>
              /\ Cur'.start = Cur.start
              /\ Cur'.end = Cur.end
              /\ Cur'.buffer = Cur.buffer
              /\ Cur'.capacity = Cur.capacity
       /\ (pc # "start" /\ last'.op = "push") =>
              Cur'.capacity = Cur.capacity]_vars

C11_Witness ==
    /\ pc = "live"
    /\ last.op = "peek_first"
    /\ last.ret # None
    /\ rb.start > 0

\* (C12) After at least one push the cursors are never start = 0 and end = 0,
\* and no reachable state holds live elements while len() evaluates to 0.
C12_NoZeroLengthNonEmpty ==
    (pc # "start" /\ NPushed >= 1) =>
        /\ ~(Cur.start = 0 /\ Cur.end = 0)
        /\ len(Cur) # 0

\* (C13) Assigning the capacity field after construction has no effect: the
\* capacity read afterwards is the one the buffer had before the assignment.
C13_CapacityAssignmentIgnored ==
    [][last'.op = "set_capacity" => rb'.capacity = rb.capacity]_vars

\* A step that is a call of push on a buffer in the full-wrapped case
\* (start # 0 and start = end).
PushFullWrapped == pc = "live" /\ last'.op = "push" /\ rb.start # 0 /\ rb.start = rb.end

spec_len(self) ==
    IF self.start = 0 /\ self.end = 0
    THEN 0
    ELSE IF self.start <= self.end
         THEN self.end - self.start
         ELSE self.capacity - self.start + self.end

\* (C15) In every reachable state the value len() returns equals the
\* specification's formula: 0 if start = 0 and end = 0, end - start if
\* start <= end, capacity - start + end if start > end.
C15_LenMatchesFormula ==
    /\ pc # "start" => len(Cur) = spec_len(Cur)
    /\ last.op = "len" => last.ret = Some(spec_len(rb))

C15_Witness ==
    /\ last.op = "len"
    /\ rb.start > 0
    /\ NPushed > rb.capacity

\* (C16) In every reachable state end <= capacity and (start = 0 or
\* start = end); so push's third branch (start # 0 and start # end) and len()'s
\* wrap branch (start > end) are never taken.
C16_CursorShape ==
    pc # "start" =>
        /\ Cur.end <= Cur.capacity
        /\ (Cur.start = 0 \/ Cur.start = Cur.end)
        /\ ~(Cur.start # 0 /\ Cur.start # Cur.end)
        /\ ~(~(Cur.start = 0 /\ Cur.end = 0) /\ ~(Cur.start <= Cur.end))

C16_Witness ==
    /\ pc = "live"
    /\ last.op = "push"
    /\ rb.capacity >= 3
    /\ rb.start = rb.end
    /\ rb.start = 2
    /\ NPushed > rb.capacity

C18_CursorsFollowCount ==
    (Owned /\ Cur.capacity >= 2) =>
        LET C == Cur.capacity
            n == NPushed
        IN /\ <<Cur.start, Cur.end>> =
                  IF n <= C THEN <<0, n>>
                  ELSE IF n % C # 0 THEN <<n % C, n % C>>
                  ELSE <<0, C>>
           /\ n >= 1 =>
                  /\ Cur.buffer[(Cur.start % C) + 1] = Oldest(0)
                  /\ Cur.buffer[Cur.end] = pushed[n]

C18_Witness ==
    /\ pc = "live"
    /\ last.op = "push"
    /\ rb.capacity >= 2
    /\ NPushed = 2 * rb.capacity + 1
    /\ pushed[NPushed] # pushed[NPushed - rb.capacity + 1]

\* The values handed to push so far: those of the pushes that returned and
\* the argument of a push that panicked.
Handed ==
    {pushed[k] : k \in 1..NPushed}
        \cup (IF last.op = "push" /\ last.panic THEN {last.arg} ELSE {})

\* How many storage slots hold v, and how many pushes handed v back.
StoredCount(v) == Cardinality({i \in 1..Len(Cur.buffer) : Cur.buffer[i] = v})
ReturnedCount(v) == Cardinality({i \in 1..Len(returned) : returned[i] = v})

\* (C19) With distinct pushed values, every value handed to push is either
\* stored in exactly one storage slot or was returned by exactly one push,
\* never both and never neither.
C19_NoValueLostOrDuplicated ==
    pc # "start" =>
        \A v \in Handed : StoredCount(v) + ReturnedCount(v) = 1

====
